---- MODULE Spec2Model ----
(***************************************************************************)
(* civil-date: a calendar day as an integer day count since 1970-01-01,    *)
(* its 3-character radix-36 code, its ISO string and its conversions from  *)
(* and to a JavaScript Date (src/src/index.ts).                            *)
(*                                                                         *)
(* Representation.                                                         *)
(*  - A string is a sequence of one-character strings.                     *)
(*  - A JavaScript number is a fixed-point integer n standing for n/Denom, *)
(*    so that fractional day counts exist in the model.                    *)
(*  - A Date is a record [day, ms, off]: the instant day*MS_PER_DAY + ms   *)
(*    milliseconds after the epoch (0 <= ms < MS_PER_DAY), and off, the    *)
(*    local UTC offset in minutes in effect at that instant.               *)
(*  - The outcome of a call is a record [tag, num, str, date, msg] with    *)
(*    tag "ok" (a return value) or "throw" (an Error with message msg).    *)
(***************************************************************************)
EXTENDS Integers, Sequences, FiniteSets, TLC

\* arg, arg2: the arguments of the calls; tz: the local UTC offset in minutes;
\* now: the current instant; out, back, last: the outcomes of the first,
\* second and third call of a run; pc: which calls have been made
VARIABLES arg, arg2, tz, now, out, back, last, pc

vars == <<arg, arg2, tz, now, out, back, last, pc>>

\* const MS_PER_DAY = 86_400_000
MS_PER_DAY == 86400000

MIN_DAYS == 1296

MAX_DAYS == 46655

\* milliseconds per minute, the unit of the local offset
MS_PER_MINUTE == 60 * 1000

(***************************************************************************)
(* Bounds of the model.                                                    *)
(***************************************************************************)
\* denominator of the fixed-point numbers: n stands for n/Denom
Denom == 2

\* how far below and above a boundary the inputs go
Margin == 3

\* the longest string that is not three characters long
MaxLen == 4

\* one day in every Stride days of the supported range is an input
Stride == 11

\* the number of carry boundaries of the code (multiples of 36 * 36) used
\* as inputs of the order check
Carries == 12

(***************************************************************************)
(* Values.                                                                 *)
(***************************************************************************)
NoDate == [day |-> 0, ms |-> 0, off |-> 0]

None == [tag |-> "none", num |-> 0, str |-> <<>>, date |-> NoDate, msg |-> ""]

Throw(m) == [None EXCEPT !.tag = "throw", !.msg = m]

RetNum(n) == [None EXCEPT !.tag = "ok", !.num = n]

RetStr(s) == [None EXCEPT !.tag = "ok", !.str = s]

RetDate(d) == [None EXCEPT !.tag = "ok", !.date = d]

Min(a, b) == IF a < b THEN a ELSE b

Max(a, b) == IF a > b THEN a ELSE b

\* the fixed-point number of the integer i
Num(i) == i * Denom

IsInteger(n) == n % Denom = 0

\* Math.floor(days), as an integer
MathFloor(n) == n \div Denom

(***************************************************************************)
(* Characters and strings.                                                 *)
(***************************************************************************)
Digits == <<"0", "1", "2", "3", "4", "5", "6", "7", "8", "9">>

Lower == <<"a", "b", "c", "d", "e", "f", "g", "h", "i", "j", "k", "l", "m",
           "n", "o", "p", "q", "r", "s", "t", "u", "v", "w", "x", "y", "z">>

Upper == <<"A", "B", "C", "D", "E", "F", "G", "H", "I", "J", "K", "L", "M",
           "N", "O", "P", "Q", "R", "S", "T", "U", "V", "W", "X", "Y", "Z">>

Range(s) == {s[i] : i \in DOMAIN s}

IndexOf(c, s) == CHOOSE i \in DOMAIN s : s[i] = c

IsDigit(c) == c \in Range(Digits)

IsLower(c) == c \in Range(Lower)

IsUpper(c) == c \in Range(Upper)

\* String.prototype.toUpperCase / toLowerCase, on the characters of the model
UpperChar(c) == IF IsLower(c) THEN Upper[IndexOf(c, Lower)] ELSE c

LowerChar(c) == IF IsUpper(c) THEN Lower[IndexOf(c, Upper)] ELSE c

\* a variant that leaves the letters as they are (toUpperCase forgotten)
ToUpperCaseOmitted(s) == s

ToUpperCase(s) == [i \in DOMAIN s |-> UpperChar(s[i])]

ToLowerCase(s) == [i \in DOMAIN s |-> LowerChar(s[i])]

\* a variant in which the letters count from 11 instead of 10
DigitValueOffByOne(c) ==
    IF IsDigit(c) THEN IndexOf(c, Digits) - 1
    ELSE IF IsLower(c) THEN Min(10 + IndexOf(c, Lower), 35)
    ELSE IF IsUpper(c) THEN Min(10 + IndexOf(c, Upper), 35)
    ELSE 36

\* the value of a character as a digit of parseInt (36 for a non-digit)
DigitValue(c) ==
    IF IsDigit(c) THEN IndexOf(c, Digits) - 1
    ELSE IF IsLower(c) THEN 9 + IndexOf(c, Lower)
    ELSE IF IsUpper(c) THEN 9 + IndexOf(c, Upper)
    ELSE 36

\* the digit characters of Number.prototype.toString(radix): 0-9 then a-z
DigitChar(v) == IF v < 10 THEN Digits[v + 1] ELSE Lower[v - 9]

\* Number.prototype.toString(radix) of an integer n >= 0
RECURSIVE NumberToString(_, _)
NumberToString(n, radix) ==
    IF n < radix THEN <<DigitChar(n)>>
    ELSE NumberToString(n \div radix, radix) \o <<DigitChar(n % radix)>>

\* String.prototype.padStart(len, fill) with a one-character fill
RECURSIVE PadStart(_, _, _)
PadStart(s, len, fill) ==
    IF Len(s) >= len THEN s ELSE PadStart(<<fill>> \o s, len, fill)

\* parseInt(s, radix): the value of the longest prefix of digits below the
\* radix, NaN when that prefix is empty
RECURSIVE ParsePrefix(_, _, _, _)
ParsePrefix(s, radix, i, acc) ==
    IF i > Len(s) \/ DigitValue(s[i]) >= radix THEN [nan |-> i = 1, num |-> acc]
    ELSE ParsePrefix(s, radix, i + 1, acc * radix + DigitValue(s[i]))

ParseInt(s, radix) == ParsePrefix(s, radix, 1, 0)

\* CODE_REGEX = /^[0-9A-Za-z]{3}$/
IsAlnum(c) == IsDigit(c) \/ IsLower(c) \/ IsUpper(c)

\* a variant without the anchors: /[0-9A-Za-z]{3}/
CODE_REGEX_Unanchored(s) ==
    \E i \in 1..(Len(s) - 2) : \A j \in i..(i + 2) : IsAlnum(s[j])

CODE_REGEX(s) == Len(s) = 3 /\ \A i \in 1..3 : IsAlnum(s[i])

(***************************************************************************)
(* encode and decode.                                                      *)
(***************************************************************************)
\* encode(days), days a fixed-point number
encode(days) ==
    IF days < Num(MIN_DAYS) \/ days > Num(MAX_DAYS)
    THEN Throw("Days out of range")
    ELSE RetStr(PadStart(ToUpperCase(NumberToString(MathFloor(days), 36)), 3, "0"))

\* a variant that parses in radix 10: parseInt(code)
decodeRadix10(code) ==
    IF ~CODE_REGEX(code) THEN Throw("Invalid civil-date code")
    ELSE LET days == ParseInt(code, 10)
         IN  IF days.nan THEN Throw("Invalid civil-date code")
             ELSE RetNum(Num(days.num))

\* decode(code)
decode(code) ==
    IF ~CODE_REGEX(code) THEN Throw("Invalid civil-date code")
    ELSE LET days == ParseInt(code, 36)
         IN  IF days.nan THEN Throw("Invalid civil-date code")
             ELSE RetNum(Num(days.num))

(***************************************************************************)
(* The calendar of the Date object (ECMAScript day numbers).               *)
(***************************************************************************)
\* the day number of 1 January of year y
DayFromYear(y) ==
    365 * (y - 1970) + ((y - 1969) \div 4) - ((y - 1901) \div 100)
        + ((y - 1601) \div 400)

DaysInYear(y) ==
    IF y % 4 # 0 THEN 365
    ELSE IF y % 100 # 0 THEN 366
    ELSE IF y % 400 # 0 THEN 365
    ELSE 366

InLeapYear(y) == DaysInYear(y) - 365

\* the day within the year on which month m (0 = January) starts
MonthStart(m, leap) ==
    <<0, 31, 59 + leap, 90 + leap, 120 + leap, 151 + leap, 181 + leap,
      212 + leap, 243 + leap, 273 + leap, 304 + leap, 334 + leap,
      365 + leap>>[m + 1]

\* the year in which day number `day` falls
YearFromDay(day) ==
    CHOOSE y \in (1969 + Min(day \div 365, day \div 366))
                 .. (1971 + Max(day \div 365, day \div 366)) :
        DayFromYear(y) <= day /\ day < DayFromYear(y + 1)

DayWithinYear(day) == day - DayFromYear(YearFromDay(day))

\* the month (0 = January) in which day number `day` falls
MonthFromDay(day) ==
    LET leap == InLeapYear(YearFromDay(day))
        dw == DayWithinYear(day)
    IN  CHOOSE m \in 0..11 :
            MonthStart(m, leap) <= dw /\ dw < MonthStart(m + 1, leap)

\* the day of the month (1..31) of day number `day`
DateFromDay(day) ==
    DayWithinYear(day)
        - MonthStart(MonthFromDay(day), InLeapYear(YearFromDay(day))) + 1

\* a year argument 0..99 of the Date constructor and of Date.UTC means 19xx
MakeFullYear(year) == IF 0 <= year /\ year <= 99 THEN 1900 + year ELSE year

\* the day number of (year, month, date), month 0-based; month and date
\* roll over into the following months and years
MakeDay(year, month, date) ==
    LET ym == year + (month \div 12)
        mn == month % 12
    IN  DayFromYear(ym) + MonthStart(mn, InLeapYear(ym)) + date - 1

\* a number of milliseconds, as an instant [day, ms] with 0 <= ms < MS_PER_DAY
Instant(day, ms) ==
    [day |-> day + (ms \div MS_PER_DAY), ms |-> ms % MS_PER_DAY]

\* a variant that reads the UTC fields instead of the local ones
LocalDayFromUTC(date) == date.day

\* the day number of the local wall-clock time of a Date
LocalDay(date) == Instant(date.day, date.ms + date.off * MS_PER_MINUTE).day

getFullYear(date) == YearFromDay(LocalDay(date))

getMonth(date) == MonthFromDay(LocalDay(date))

getDate(date) == DateFromDay(LocalDay(date))

getUTCFullYear(date) == YearFromDay(date.day)

getUTCMonth(date) == MonthFromDay(date.day)

getUTCDate(date) == DateFromDay(date.day)

\* Date.UTC(year, month, day): the instant of midnight UTC of that day
DateUTC(year, month, day) ==
    Instant(MakeDay(MakeFullYear(year), month, day), 0)

\* new Date(year, month, day) where the local offset is off minutes:
\* midnight of that day on the local wall clock
NewDate(year, month, day, off) ==
    LET t == Instant(MakeDay(MakeFullYear(year), month, day),
                     0 - off * MS_PER_MINUTE)
    IN  [day |-> t.day, ms |-> t.ms, off |-> off]

(***************************************************************************)
(* fromDate, toDate, toISOString.                                          *)
(***************************************************************************)
\* Math.floor(utcTimestamp / MS_PER_DAY)
FloorDays(t) == t.day

\* fromDate(date), as an integer
fromDate(date) ==
    LET year == getFullYear(date)
        month == getMonth(date)
        day == getDate(date)
        utcTimestamp == DateUTC(year, month, day)
    IN  FloorDays(utcTimestamp)

\* new Date(days * MS_PER_DAY), days a fixed-point number
DateOfDays(days, off) ==
    [day |-> days \div Denom,
     ms |-> ((days % Denom) * MS_PER_DAY) \div Denom,
     off |-> off]

\* toDate(value) for a number (isStr = FALSE) or a string (isStr = TRUE)
toDate(isStr, num, str, off) ==
    LET days == IF isStr THEN decode(str) ELSE RetNum(num)
    IN  IF days.tag = "throw" THEN days
        ELSE RetDate(DateOfDays(days.num, off))

\* String(n) of an integer
NumberString(n) ==
    IF n < 0 THEN <<"-">> \o NumberToString(0 - n, 10)
    ELSE NumberToString(n, 10)

\* toISOString(date)
toISOString(date) ==
    LET y == getFullYear(date)
        m == PadStart(NumberString(getMonth(date) + 1), 2, "0")
        d == PadStart(NumberString(getDate(date)), 2, "0")
    IN  NumberString(y) \o <<"-">> \o m \o <<"-">> \o d

(***************************************************************************)
(* class CivilDate.                                                        *)
(***************************************************************************)
SubStr(s, a, b) == [i \in 1..(b - a + 1) |-> s[a + i - 1]]

\* the groups of ISO_REGEX = /^(\d{4})-(0[1-9]|1[0-2])-(0[1-9]|[12]\d|3[01])$/
MonthGroup(a, b) ==
    \/ a = "0" /\ IsDigit(b) /\ b # "0"
    \/ a = "1" /\ b \in {"0", "1", "2"}

DayGroup(a, b) ==
    \/ a = "0" /\ IsDigit(b) /\ b # "0"
    \/ a \in {"1", "2"} /\ IsDigit(b)
    \/ a = "3" /\ b \in {"0", "1"}

ISO_REGEX(s) ==
    /\ Len(s) = 10
    /\ \A i \in 1..4 : IsDigit(s[i])
    /\ s[5] = "-"
    /\ MonthGroup(s[6], s[7])
    /\ s[8] = "-"
    /\ DayGroup(s[9], s[10])

\* the arguments of the constructor
Undefined == [kind |-> "undefined", num |-> 0, str |-> <<>>, date |-> NoDate]

NumberArg(n) == [Undefined EXCEPT !.kind = "number", !.num = n]

StringArg(s) == [Undefined EXCEPT !.kind = "string", !.str = s]

DateArg(d) == [Undefined EXCEPT !.kind = "date", !.date = d]

\* the string branch of the constructor
CtorString(value, off) ==
    IF ISO_REGEX(value)
    THEN LET y == ParseInt(SubStr(value, 1, 4), 10).num
             m == ParseInt(SubStr(value, 6, 7), 10).num
             d == ParseInt(SubStr(value, 9, 10), 10).num
             date == NewDate(y, m - 1, d, off)
             valid == /\ getFullYear(date) = y
                      /\ getMonth(date) = m - 1
                      /\ getDate(date) = d
         IN  IF valid THEN RetNum(Num(fromDate(date)))
             ELSE Throw("Invalid date")
    ELSE decode(value)

\* new CivilDate(value): the outcome holds this.value in num, or the Error
\* thrown; clock is the current instant, off the local offset
CivilDate(value, clock, off) ==
    IF value.kind = "date" THEN RetNum(Num(fromDate(value.date)))
    ELSE IF value.kind = "undefined"
    THEN RetNum(Num(fromDate([day |-> clock.day, ms |-> clock.ms, off |-> off])))
    ELSE IF value.kind = "number"
    THEN IF value.num < Num(MIN_DAYS) \/ value.num > Num(MAX_DAYS)
         THEN Throw("Days out of range")
         ELSE RetNum(value.num)
    ELSE CtorString(value.str, off)

\* CivilDate.prototype.toString
CivilDate_toString(value) == encode(value)

\* CivilDate.prototype.toDate
CivilDate_toDate(value, off) == toDate(FALSE, value, <<>>, off)

\* a variant that formats the UTC-midnight Date itself, by its local fields
CivilDate_toISOStringDirect(value, off) ==
    RetStr(toISOString(toDate(FALSE, value, <<>>, off).date))

\* CivilDate.prototype.toISOString
CivilDate_toISOString(value, off) ==
    LET date == toDate(FALSE, value, <<>>, off).date
        local == NewDate(getUTCFullYear(date), getUTCMonth(date),
                         getUTCDate(date), off)
    IN  RetStr(toISOString(local))

(***************************************************************************)
(* Inputs.                                                                 *)
(***************************************************************************)
Window(d) == (d - Margin)..(d + Margin)

\* day counts at which something changes: the epoch, the limits of the
\* range, the day of the tests (2025-12-23), leap days (2000-02-29,
\* 2024-02-29), the end of February 2100, a year end
KeyDays ==
    Window(0) \cup Window(MIN_DAYS) \cup Window(MAX_DAYS) \cup Window(20445)
        \cup Window(11016) \cup Window(19782) \cup Window(47541)
        \cup Window(20453)

\* integers around the limits, and fractions between them
EncodeInputs ==
    {Num(d) : d \in (MIN_DAYS - Margin)..(MAX_DAYS + Margin)}
        \cup {Num(d) + f : d \in KeyDays, f \in 0..(Denom - 1)}

\* the days of the supported range
SupportedDays == MIN_DAYS..MAX_DAYS

\* days around the carries of the code: "0ZZ" -> "100", "1ZZ" -> "200", ...,
\* "9ZZ" -> "A00", ... and around a carry of the last digit
CarryDays ==
    (UNION {Window(k * 36 * 36) : k \in 1..Carries}
        \cup Window(MIN_DAYS + 36) \cup Window(20445) \cup Window(MAX_DAYS))
    \cap SupportedDays

\* the pairs d1 < d2 of the order check: every day with its successor, and
\* every pair of days around the carries
OrderPairs ==
    {<<d, d + 1>> : d \in MIN_DAYS..(MAX_DAYS - 1)}
        \cup {p \in CarryDays \X CarryDays : p[1] < p[2]}

\* a sample of the supported range: one day in Stride, and the key days
SampleDays ==
    {d \in SupportedDays : d % Stride = 0} \cup (KeyDays \cap SupportedDays)

\* the local UTC offsets, in minutes (UTC-12:00 .. UTC+14:00)
Offsets == {-720, -360, -15, 0, 15, 330, 840}

\* times of day, in milliseconds: midnight, 01:00, 23:00, the last millisecond
TimesOfDay == {0, 3600000, 82800000, MS_PER_DAY - 1}

AllChars == Range(Digits) \cup Range(Upper) \cup Range(Lower)

OtherChars == {"?", "-", "/", " ", "_"}

SomeChars == {"0", "1", "F", "r", "Z", "z", "?"}

\* all sequences over S of length n
RECURSIVE SeqsOfLen(_, _)
SeqsOfLen(S, n) ==
    IF n = 0 THEN {<<>>}
    ELSE {<<c>> \o t : c \in S, t \in SeqsOfLen(S, n - 1)}

\* three-character strings: one position ranges over every character, the
\* other two over SomeChars
Strings3 ==
    LET All == AllChars \cup OtherChars
    IN  {<<a, b, c>> : a \in All, b \in SomeChars, c \in SomeChars}
            \cup {<<a, b, c>> : a \in SomeChars, b \in All, c \in SomeChars}
            \cup {<<a, b, c>> : a \in SomeChars, b \in SomeChars, c \in All}

\* the strings given to decode: of three characters, and of 0..MaxLen others
CodeInputs ==
    Strings3 \cup UNION {SeqsOfLen({"F", "r", "0", "?"}, n) :
                            n \in (0..MaxLen) \ {3}}

\* days of the Date arguments: the epoch and the day after, the limits of
\* the range, the day of the tests, a leap day, and days of the years 0050,
\* 0099 and 0100
MomentDays ==
    {0, 1, MIN_DAYS, MAX_DAYS, 20445, 19782,
     DayFromYear(50), DayFromYear(100) - 1, DayFromYear(100)}

Moments(days, offs) ==
    {[day |-> d, ms |-> t, off |-> o] : d \in days, t \in TimesOfDay, o \in offs}

Pad(n, len) == PadStart(NumberString(n), len, "0")

IsoString(y, m, d) == Pad(y, 4) \o <<"-">> \o Pad(m, 2) \o <<"-">> \o Pad(d, 2)

IsoYears ==
    {0, 50, 99, 100, 1900, 1970, 1973, 2000, 2023, 2024, 2025, 2097, 2100, 9999}

\* strings of the shape of an ISO date or near it: months 00..13, days 00,
\* 01, 28..32, and the same with another separator, or a character more or less
IsoLike ==
    LET Good == {IsoString(y, m, d) :
                    y \in IsoYears, m \in 0..13, d \in {0, 1, 28, 29, 30, 31, 32}}
        Few == {IsoString(y, m, d) : y \in {2025}, m \in {1, 2}, d \in {1, 30}}
    IN  Good
          \cup {[t EXCEPT ![5] = "/", ![8] = "/"] : t \in Few}
          \cup {[t EXCEPT ![8] = "/"] : t \in Few}
          \cup {SubStr(t, 1, 9) : t \in Few}
          \cup {SubStr(t, 2, 10) : t \in Few}
          \cup {t \o <<"0">> : t \in Few}
          \cup {<<"0">> \o t : t \in Few}
          \cup {<<" ">> \o t : t \in Few}

\* some codes and some strings that are neither
SomeCodes ==
    {<<"F", "R", "X">>, <<"f", "r", "x">>, <<"1", "0", "0">>, <<"Z", "Z", "Z">>,
     <<"z", "z", "z">>, <<"0", "0", "0">>, <<"0", "Z", "Z">>, <<"2", "0", "2">>,
     <<"?", "?", "?">>, <<"F", "R">>, <<"F", "R", "X", "X">>, <<>>,
     <<"i", "n", "v", "a", "l", "i", "d">>, <<"1", "-", "1">>}

\* the arguments of the constructor
CtorArgs(off) ==
    {NumberArg(Num(d)) : d \in SampleDays}
        \cup {NumberArg(n) : n \in {Num(d) + f : d \in KeyDays, f \in 0..(Denom - 1)}}
        \cup {StringArg(t) : t \in IsoLike \cup SomeCodes}
        \cup {DateArg(m) : m \in Moments(MomentDays, {off})}
        \cup {Undefined}

(***************************************************************************)
(* Calls.  Each action is one call of an exported function, of the         *)
(* constructor or of a method; pc orders the calls of a run.               *)
(***************************************************************************)
Start == pc = "start" /\ out = None /\ back = None /\ last = None

\* encode(arg)
Encode ==
    /\ pc = "start" /\ arg.kind = "number"
    /\ out' = encode(arg.num)
    /\ pc' = "encoded"
    /\ UNCHANGED <<arg, arg2, tz, now, back, last>>

\* decode(encode(arg)): the second call, when the first returned
DecodeBack ==
    /\ pc = "encoded" /\ out.tag = "ok"
    /\ back' = decode(out.str)
    /\ pc' = "decodedBack"
    /\ UNCHANGED <<arg, arg2, tz, now, out, last>>

\* encode(arg2)
EncodeSecond ==
    /\ pc = "encoded" /\ arg2.kind = "number"
    /\ back' = encode(arg2.num)
    /\ pc' = "encodedBoth"
    /\ UNCHANGED <<arg, arg2, tz, now, out, last>>

\* decode(arg)
Decode ==
    /\ pc = "start" /\ arg.kind = "string"
    /\ out' = decode(arg.str)
    /\ pc' = "decoded"
    /\ UNCHANGED <<arg, arg2, tz, now, back, last>>

\* decode(arg.toUpperCase())
DecodeUpper ==
    /\ pc = "start" /\ arg.kind = "string"
    /\ out' = decode(ToUpperCase(arg.str))
    /\ pc' = "decodedUpper"
    /\ UNCHANGED <<arg, arg2, tz, now, back, last>>

\* encode(decode(...)): the second call, when the first returned
EncodeBack ==
    /\ pc \in {"decoded", "decodedUpper"} /\ out.tag = "ok"
    /\ back' = encode(out.num)
    /\ pc' = IF pc = "decoded" THEN "encodedBack" ELSE "encodedBackUpper"
    /\ UNCHANGED <<arg, arg2, tz, now, out, last>>

\* fromDate(arg)
FromDate ==
    /\ pc = "start" /\ arg.kind = "date"
    /\ out' = RetNum(Num(fromDate(arg.date)))
    /\ pc' = "fromDate"
    /\ UNCHANGED <<arg, arg2, tz, now, back, last>>

\* fromDate(arg2)
FromDateSecond ==
    /\ pc = "fromDate" /\ arg2.kind = "date"
    /\ back' = RetNum(Num(fromDate(arg2.date)))
    /\ pc' = "fromDateBoth"
    /\ UNCHANGED <<arg, arg2, tz, now, out, last>>

\* toDate(arg), arg a number or a string
ToDate ==
    /\ pc = "start" /\ arg.kind \in {"number", "string"} /\ arg2 = Undefined
    /\ out' = toDate(arg.kind = "string", arg.num, arg.str, tz)
    /\ pc' = "toDate"
    /\ UNCHANGED <<arg, arg2, tz, now, back, last>>

\* fromDate(toDate(arg)): the second call, when the first returned
FromDateBack ==
    /\ pc = "toDate" /\ out.tag = "ok"
    /\ back' = RetNum(Num(fromDate(out.date)))
    /\ pc' = "fromDateBack"
    /\ UNCHANGED <<arg, arg2, tz, now, out, last>>

\* new CivilDate(arg)
Construct ==
    /\ pc = "start" /\ arg2 = Undefined
    /\ out' = CivilDate(arg, now, tz)
    /\ pc' = "constructed"
    /\ UNCHANGED <<arg, arg2, tz, now, back, last>>

\* new CivilDate(arg).toString()
CallToString ==
    /\ pc = "constructed" /\ out.tag = "ok"
    /\ back' = CivilDate_toString(out.num)
    /\ pc' = "toString"
    /\ UNCHANGED <<arg, arg2, tz, now, out, last>>

\* new CivilDate(arg).toDate()
CallToDate ==
    /\ pc = "constructed" /\ out.tag = "ok"
    /\ back' = CivilDate_toDate(out.num, tz)
    /\ pc' = "toDateMethod"
    /\ UNCHANGED <<arg, arg2, tz, now, out, last>>

\* new CivilDate(arg).toISOString()
CallToISOString ==
    /\ pc = "constructed" /\ out.tag = "ok"
    /\ back' = CivilDate_toISOString(out.num, tz)
    /\ pc' = "toISOString"
    /\ UNCHANGED <<arg, arg2, tz, now, out, last>>

\* new CivilDate(new CivilDate(arg).toISOString())
Reconstruct ==
    /\ pc = "toISOString" /\ back.tag = "ok"
    /\ last' = CivilDate(StringArg(back.str), now, tz)
    /\ pc' = "reconstructed"
    /\ UNCHANGED <<arg, arg2, tz, now, out, back>>

(***************************************************************************)
(* Specifications: the runs of each group of calls from its inputs.        *)
(***************************************************************************)
NoClock == [day |-> 0, ms |-> 0]

\* encode, then decode of its result
InitRoundTrip ==
    /\ Start
    /\ arg \in {NumberArg(n) : n \in EncodeInputs}
    /\ arg2 = Undefined /\ tz = 0 /\ now = NoClock

NextRoundTrip == Encode \/ DecodeBack

SpecRoundTrip == InitRoundTrip /\ [][NextRoundTrip]_vars

\* encode of two days d1 < d2
InitOrder ==
    /\ Start
    /\ \E p \in OrderPairs :
          arg = NumberArg(Num(p[1])) /\ arg2 = NumberArg(Num(p[2]))
    /\ tz = 0 /\ now = NoClock

NextOrder == Encode \/ EncodeSecond

SpecOrder == InitOrder /\ [][NextOrder]_vars

\* decode of a string as it is or in upper case, then encode of its result
InitDecode ==
    /\ Start
    /\ arg \in {StringArg(c) : c \in CodeInputs}
    /\ arg2 = Undefined /\ tz = 0 /\ now = NoClock

NextDecode == Decode \/ DecodeUpper \/ EncodeBack

SpecDecode == InitDecode /\ [][NextDecode]_vars

\* fromDate of two Dates, the second on the same day as the first or on a
\* neighbouring one
InitFromDate ==
    /\ Start
    /\ \E m \in Moments(MomentDays, Offsets) :
          /\ arg = DateArg(m)
          /\ arg2 \in {DateArg(n) :
                          n \in Moments({m.day - 1, m.day, m.day + 1}, Offsets)}
    /\ tz = 0 /\ now = NoClock

NextFromDate == FromDate \/ FromDateSecond

SpecFromDate == InitFromDate /\ [][NextFromDate]_vars

\* toDate of a day count or a code, then fromDate of the Date returned
InitToDate ==
    /\ Start
    /\ arg \in {NumberArg(Num(d)) : d \in SampleDays}
                  \cup {StringArg(c) : c \in SomeCodes}
    /\ tz \in Offsets
    /\ arg2 = Undefined /\ now = NoClock

NextToDate == ToDate \/ FromDateBack

SpecToDate == InitToDate /\ [][NextToDate]_vars

\* the constructor and the methods of CivilDate
InitCivil ==
    /\ Start
    /\ tz \in Offsets
    /\ arg \in CtorArgs(tz)
    /\ now \in IF arg.kind = "undefined"
               THEN {[day |-> d, ms |-> t] : d \in MomentDays, t \in TimesOfDay}
               ELSE {NoClock}
    /\ arg2 = Undefined

NextCivil ==
    Construct \/ CallToString \/ CallToDate \/ CallToISOString \/ Reconstruct

SpecCivil == InitCivil /\ [][NextCivil]_vars

\* every call, from the inputs of the specifications above; the day counts
\* given to encode alone are those around the key days and the carries
Init ==
    \/ InitRoundTrip /\ MathFloor(arg.num) \in KeyDays
    \/ InitOrder /\ MathFloor(arg.num) \in CarryDays
    \/ InitDecode \/ InitFromDate \/ InitToDate \/ InitCivil

Next ==
    \/ Encode \/ DecodeBack \/ EncodeSecond
    \/ Decode \/ DecodeUpper \/ EncodeBack
    \/ FromDate \/ FromDateSecond \/ ToDate \/ FromDateBack
    \/ Construct \/ CallToString \/ CallToDate \/ CallToISOString
    \/ Reconstruct

Spec == Init /\ [][Next]_vars

(***************************************************************************)
(* Reference notions of the properties, independent of the code above.     *)
(***************************************************************************)
\* the character code (ASCII) of a character of the model
CharCode(c) ==
    IF IsDigit(c) THEN 47 + IndexOf(c, Digits)
    ELSE IF IsUpper(c) THEN 64 + IndexOf(c, Upper)
    ELSE IF IsLower(c) THEN 96 + IndexOf(c, Lower)
    ELSE IF c = " " THEN 32
    ELSE IF c = "-" THEN 45
    ELSE IF c = "/" THEN 47
    ELSE IF c = "?" THEN 63
    ELSE 95

\* s < t in lexicographic character-code order
LexLess(s, t) ==
    \E i \in 1..(Min(Len(s), Len(t)) + 1) :
        /\ \A j \in 1..(i - 1) : s[j] = t[j]
        /\ \/ i = Len(s) + 1 /\ i <= Len(t)
           \/ i <= Len(s) /\ i <= Len(t) /\ CharCode(s[i]) < CharCode(t[i])

InRange(x, lo, hi) == lo <= x /\ x <= hi

\* a character of 0-9, A-Z, a-z
RefCodeChar(c) ==
    \/ InRange(CharCode(c), 48, 57)
    \/ InRange(CharCode(c), 65, 90)
    \/ InRange(CharCode(c), 97, 122)

\* a character of 0-9, A-Z
RefUpperCodeChar(c) ==
    InRange(CharCode(c), 48, 57) \/ InRange(CharCode(c), 65, 90)

\* the value of a base-36 digit, read case-insensitively
RefDigit36(c) ==
    IF CharCode(c) <= 57 THEN CharCode(c) - 48
    ELSE IF CharCode(c) <= 90 THEN CharCode(c) - 55
    ELSE CharCode(c) - 87

RefBase36(s) == 36 * 36 * RefDigit36(s[1]) + 36 * RefDigit36(s[2]) + RefDigit36(s[3])

RefIsCode(s) == Len(s) = 3 /\ \A i \in 1..3 : RefCodeChar(s[i])

\* the day count d of a fixed-point number is an integer of the range
SupportedInteger(n) == IsInteger(n) /\ InRange(n, Num(MIN_DAYS), Num(MAX_DAYS))

(***************************************************************************)
(* Claims about encode and decode.                                         *)
(***************************************************************************)
\* C1: for every integer d with 1296 <= d <= 46655, encode(d) returns, and
\* decode of the code it returns is d.
C1_DecodeEncode ==
    SupportedInteger(arg.num) =>
        /\ pc = "encoded" => out.tag = "ok"
        /\ pc = "decodedBack" => back = RetNum(arg.num)

\* C1 witness: the round trip has been made for the first day of the range.
C1_Witness ==
    /\ pc = "decodedBack" /\ arg.num = Num(MIN_DAYS)
    /\ out.str = <<"1", "0", "0">> /\ back.num = Num(MIN_DAYS)

\* C4: encode(x) throws "Days out of range" exactly when floor(x) is below
\* 1296 or above 46655, and otherwise returns the code of floor(x).
C4_FloorThenValidate ==
    pc = "encoded" =>
        LET f == MathFloor(arg.num)
        IN  IF f < MIN_DAYS \/ f > MAX_DAYS
            THEN out = Throw("Days out of range")
            ELSE out.tag = "ok"
                   /\ RefBase36(out.str) = f /\ Len(out.str) = 3

\* C4, what the code does: encode(x) throws exactly when x itself is below
\* 1296 or above 46655, and otherwise returns the code of floor(x).
C4_ValidateThenFloor ==
    pc = "encoded" =>
        IF arg.num < Num(MIN_DAYS) \/ arg.num > Num(MAX_DAYS)
        THEN out = Throw("Days out of range")
        ELSE out.tag = "ok"
               /\ RefBase36(out.str) = MathFloor(arg.num) /\ Len(out.str) = 3

\* C4: a fraction above the last day has been given to encode.
C4_Witness ==
    /\ pc = "encoded" /\ MathFloor(arg.num) = MAX_DAYS /\ ~IsInteger(arg.num)

WellFormedCode(r) ==
    /\ r.tag = "ok" /\ Len(r.str) = 3
    /\ \A i \in 1..3 : RefUpperCodeChar(r.str[i])

C3_EncodeDecode ==
    pc = "encodedBackUpper" => back = RetStr(ToUpperCase(arg.str))

\* C3 amended: encode(decode(c.toUpperCase())) returns c.toUpperCase() when
\* the decoded value is at least 1296, and throws "Days out of range" when
\* it is below (c begins with "0").
C3_EncodeDecodeInRange ==
    pc = "encodedBackUpper" =>
        IF RefBase36(arg.str) >= MIN_DAYS
        THEN back = RetStr(ToUpperCase(arg.str))
        ELSE back = Throw("Days out of range") /\ arg.str[1] = "0"

\* C3 witness: the round trip has been made for a lower-case code.
C3_Witness ==
    /\ pc = "encodedBackUpper" /\ arg.str = <<"z", "r", "F">>
    /\ back.str = <<"Z", "R", "F">>

(***************************************************************************)
(* Reference calendar: the proleptic Gregorian calendar, by the month      *)
(* lengths and by the count of days in 400-year eras from 0000-03-01.      *)
(***************************************************************************)
RefLeapYear(y) == (y % 4 = 0 /\ y % 100 # 0) \/ y % 400 = 0

RefDaysInMonth(y, m) ==
    IF m = 2 THEN (IF RefLeapYear(y) THEN 29 ELSE 28)
    ELSE IF m \in {4, 6, 9, 11} THEN 30
    ELSE 31

\* (y, m, d), m in 1..12, is a date of the calendar
RefRealDate(y, m, d) ==
    InRange(m, 1, 12) /\ InRange(d, 1, RefDaysInMonth(y, m))

\* the number of days from 1970-01-01 to the date (y, m, d)
RefDaysFromCivil(y, m, d) ==
    LET yy == IF m <= 2 THEN y - 1 ELSE y
        era == yy \div 400
        yoe == yy - era * 400
        mp == (m + 9) % 12
        doy == ((153 * mp + 2) \div 5) + d - 1
        doe == yoe * 365 + (yoe \div 4) - (yoe \div 100) + doy
    IN  era * 146097 + doe - 719468

RefIsDigit(c) == InRange(CharCode(c), 48, 57)

\* the decimal value of the characters a..b of s
RECURSIVE RefDecimal(_, _, _)
RefDecimal(s, a, b) ==
    IF b < a THEN 0
    ELSE 10 * RefDecimal(s, a, b - 1) + (CharCode(s[b]) - 48)

\* s is dddd-dd-dd
RefIsoDigits(s) ==
    /\ Len(s) = 10 /\ s[5] = "-" /\ s[8] = "-"
    /\ \A i \in {1, 2, 3, 4, 6, 7, 9, 10} : RefIsDigit(s[i])

RefYear(s) == RefDecimal(s, 1, 4)

RefMonth(s) == RefDecimal(s, 6, 7)

RefDay(s) == RefDecimal(s, 9, 10)

\* s has the ISO shape YYYY-MM-DD with month 01-12 and day 01-31
RefIsoShape(s) ==
    RefIsoDigits(s) /\ InRange(RefMonth(s), 1, 12) /\ InRange(RefDay(s), 1, 31)

\* s is the zero-padded YYYY-MM-DD of the date n days after 1970-01-01
RefIsoOfDay(s, n) ==
    /\ RefIsoShape(s)
    /\ RefRealDate(RefYear(s), RefMonth(s), RefDay(s))
    /\ RefDaysFromCivil(RefYear(s), RefMonth(s), RefDay(s)) = n

\* the local calendar date of a Date, as <<year, month 1..12, day>>
LocalDate(date) == <<getFullYear(date), getMonth(date) + 1, getDate(date)>>

(***************************************************************************)
(* Claims about fromDate and toDate.                                       *)
(***************************************************************************)
\* C6: fromDate returns the number of whole days from 1970-01-01 to the
\* local calendar date of its argument, and so the same integer for two
\* moments whose local year, month and day are equal, whatever their times
\* of day and local offsets.
C6_FromDateLocalDay ==
    /\ pc # "start" =>
          LET l == LocalDate(arg.date)
          IN  out = RetNum(Num(RefDaysFromCivil(l[1], l[2], l[3])))
    /\ pc = "fromDateBoth" /\ LocalDate(arg.date) = LocalDate(arg2.date) =>
          out = back

\* C6, what the code does: the same integer for equal local dates, which is
\* the day count of the local date when its year is not one of 0..99
C6_FromDateOutsideYears0To99 ==
    /\ pc # "start" /\ ~InRange(getFullYear(arg.date), 0, 99) =>
          LET l == LocalDate(arg.date)
          IN  out = RetNum(Num(RefDaysFromCivil(l[1], l[2], l[3])))
    /\ pc # "start" /\ InRange(getFullYear(arg.date), 0, 99) =>
          LET l == LocalDate(arg.date)
          IN  out = RetNum(Num(RefDaysFromCivil(1900 + l[1], l[2], l[3])))
    /\ pc = "fromDateBoth" /\ LocalDate(arg.date) = LocalDate(arg2.date) =>
          out = back

\* C6: fromDate has returned for two different moments of one local date
C6_Witness ==
    /\ pc = "fromDateBoth" /\ LocalDate(arg.date) = LocalDate(arg2.date)
    /\ arg.date.off # arg2.date.off /\ arg.date.day # arg2.date.day
    /\ out = back /\ out.num = Num(20445)

\* C10: toDate(d) is the instant d * 86,400,000 ms after the epoch, and for
\* every integer d in [1296, 46655] fromDate(toDate(d)) is d when the local
\* offset is zero or positive and d - 1 when it is negative.
C10_ToDateFromDate ==
    arg.kind = "number" =>
        /\ pc # "start" =>
              out = RetDate([day |-> MathFloor(arg.num), ms |-> 0, off |-> tz])
        /\ pc = "fromDateBack" =>
              back = RetNum(IF tz >= 0 THEN arg.num ELSE arg.num - Num(1))

\* C10 witness: the day of the tests read back west of Greenwich
C10_Witness ==
    /\ pc = "fromDateBack" /\ tz < 0 /\ arg.num = Num(20445)
    /\ back.num = Num(20444)

(***************************************************************************)
(* Claims about the class CivilDate.                                       *)
(***************************************************************************)
\* C2: every CivilDate constructed, by any path, has a value in
\* [1296, 46655]; an input whose day count is outside is rejected.
C2_ValueInRange ==
    pc # "start" /\ out.tag = "ok" =>
        InRange(out.num, Num(MIN_DAYS), Num(MAX_DAYS))

\* C2, what the code does: only the number path checks the range.
C2_NumberValueInRange ==
    pc # "start" /\ out.tag = "ok" /\ arg.kind = "number" =>
        InRange(out.num, Num(MIN_DAYS), Num(MAX_DAYS))

\* C2: a CivilDate constructed from a code whose toString() throws
C2_Witness ==
    /\ pc = "toString" /\ arg.kind = "string" /\ out.tag = "ok"
    /\ back = Throw("Days out of range")

IsoRoundTrip(lastIso) ==
    arg.kind = "number" /\ SupportedInteger(arg.num) =>
        /\ pc \in {"toISOString", "reconstructed"} =>
              /\ back.tag = "ok"
              /\ RefIsoOfDay(back.str, MathFloor(arg.num))
              /\ arg.num = Num(MIN_DAYS) =>
                    back.str = <<"1", "9", "7", "3", "-", "0", "7", "-", "2", "0">>
              /\ arg.num = Num(MAX_DAYS) => back.str = lastIso
        /\ pc = "reconstructed" => last = RetNum(arg.num)

StringClassified(years) ==
    arg.kind = "string" /\ pc = "constructed" =>
        IF RefIsoShape(arg.str)
        THEN RefYear(arg.str) \in years =>
               IF RefRealDate(RefYear(arg.str), RefMonth(arg.str), RefDay(arg.str))
               THEN out.tag = "ok"
               ELSE out = Throw("Invalid date")
        ELSE IF RefIsCode(arg.str)
             THEN out = RetNum(Num(RefBase36(arg.str)))
             ELSE out = Throw("Invalid civil-date code")

\* C8: a string of the ISO shape is never tried as a code: the constructor
\* throws "Invalid date" exactly when its year, month and day are not a date
\* of the calendar; any other string is decoded as a code, and the
\* constructor throws "Invalid civil-date code" exactly when it is not three
\* characters of 0-9A-Za-z.
C8_StringClassified == StringClassified(0..9999)

\* C8, what the code does: the same for the years 0100..9999; a date of the
\* years 0000..0099 is rejected with "Invalid date".
C8_StringClassifiedFromYear100 ==
    /\ StringClassified(100..9999)
    /\ arg.kind = "string" /\ pc = "constructed" /\ RefIsoShape(arg.str)
          /\ RefYear(arg.str) < 100 => out = Throw("Invalid date")

\* C8: a date of the year 0050 has been given to the constructor
C8_Witness ==
    /\ pc = "constructed"
    /\ arg.str = <<"0", "0", "5", "0", "-", "0", "1", "-", "0", "1">>
    /\ out = Throw("Invalid date")

====
